---- MODULE Spec2Model ----
(***************************************************************************)
(* Model of migration/scripts/run_migration.py: a single-shot,             *)
(* configuration-driven CSV migration.  One process invocation (main) is   *)
(* a linear walk over its statements; the file system (log, staging,       *)
(* output, report) outlives the process.                                   *)
(*                                                                         *)
(* Text is modelled at character level: a CSV cell is a sequence of        *)
(* one-character strings, so that str.strip() and int() are computed, not  *)
(* assumed.  Python's None is the token NoneVal (as a value) and NoneKey   *)
(* (as a dict key, csv.DictReader's restkey).                              *)
(*                                                                         *)
(* Failures of the operating system (disk full, permissions) are not       *)
(* modelled; exceptions that the data itself provokes are.                 *)
(***************************************************************************)
EXTENDS Integers, Sequences, FiniteSets, TLC

\* ------------------------------------------------------------------ bounds
MaxRows == 2        \* data lines in an input file
MaxAbsent == 2      \* keys left out of a configuration document
MaxRuns == 2        \* invocations against the same paths

\* --------------------------------------------------------------- utilities
Range(s) == {s[i] : i \in 1..Len(s)}

Min(a, b) == IF a < b THEN a ELSE b

\* first index of k in s, 0 when absent
IndexOf(s, k) ==
  IF \E i \in 1..Len(s) : s[i] = k
  THEN CHOOSE i \in 1..Len(s) : s[i] = k /\ \A j \in 1..(i - 1) : s[j] # k
  ELSE 0

\* ----------------------------------------------------------- Python values
NoneVal == <<"None">>
NoneKey == "<None>"

Whitespace == {" ", "\t"}
Digits == {"0", "1", "2", "3", "4", "5", "6", "7", "8", "9"}

DigitVal(c) == CHOOSE i \in 0..9 : ToString(i) = c

\* str.strip()
RECURSIVE LStrip(_)
LStrip(s) ==
  IF s # <<>> /\ Head(s) \in Whitespace THEN LStrip(Tail(s)) ELSE s

RECURSIVE RStrip(_)
RStrip(s) ==
  IF s # <<>> /\ s[Len(s)] \in Whitespace
  THEN RStrip(SubSeq(s, 1, Len(s) - 1))
  ELSE s

Strip(s) == RStrip(LStrip(s))

\* digit (["_"] digit)* : the body of a decimal literal accepted by int()
IsIntBody(s) ==
  /\ Len(s) > 0
  /\ \A i \in 1..Len(s) : s[i] \in Digits \cup {"_"}
  /\ s[1] \in Digits
  /\ s[Len(s)] \in Digits
  /\ \A i \in 1..(Len(s) - 1) : ~(s[i] = "_" /\ s[i + 1] = "_")

RECURSIVE IntBodyVal(_, _)
IntBodyVal(s, acc) ==
  IF s = <<>> THEN acc
  ELSE IF Head(s) = "_" THEN IntBodyVal(Tail(s), acc)
  ELSE IntBodyVal(Tail(s), 10 * acc + DigitVal(Head(s)))

\* int(str): surrounding whitespace, an optional sign, a decimal body;
\* ok = FALSE stands for ValueError
ParseInt(s) ==
  LET t == Strip(s)
      signed == t # <<>> /\ t[1] \in {"+", "-"}
      body == IF signed THEN Tail(t) ELSE t
  IN IF IsIntBody(body)
     THEN [ok |-> TRUE,
           v |-> IF signed /\ t[1] = "-" THEN 0 - IntBodyVal(body, 0)
                 ELSE IntBodyVal(body, 0)]
     ELSE [ok |-> FALSE, v |-> 0]

\* ---------------------------------------------- dict (insertion-ordered)
EmptyDict == [keys |-> <<>>, vals |-> <<>>]

DictHas(d, k) == IndexOf(d.keys, k) # 0

DictGet(d, k, default) ==
  IF DictHas(d, k) THEN d.vals[IndexOf(d.keys, k)] ELSE default

\* d[k] = v : an existing key keeps its position, a new key goes last
DictSet(d, k, v) ==
  LET i == IndexOf(d.keys, k)
  IN IF i = 0
     THEN [keys |-> Append(d.keys, k), vals |-> Append(d.vals, v)]
     ELSE [keys |-> d.keys, vals |-> [d.vals EXCEPT ![i] = v]]

\* str(list_of_str), the text csv.writer emits for a list value
RECURSIVE ListItems(_)
ListItems(cells) ==
  IF cells = <<>> THEN <<>>
  ELSE <<"'">> \o Head(cells) \o <<"'">>
       \o (IF Len(cells) > 1 THEN <<",", " ">> ELSE <<>>)
       \o ListItems(Tail(cells))

ListRepr(cells) == <<"[">> \o ListItems(cells) \o <<"]">>

\* ------------------------------------------------------------ load_config
\* Key paths of the configuration document; a key is there when neither it
\* nor a section above it has been left out.
Parent(k) ==
  CASE k \in {"run.name", "run.mode", "run.fail_fast"} -> "run"
    [] k \in {"paths.raw_dir", "paths.staging_dir", "paths.output_dir",
              "paths.reports_dir", "paths.logs_dir"} -> "paths"
    [] k \in {"inputs.source_file", "inputs.expected_columns"} -> "inputs"
    [] k \in {"transform.filter", "transform.add_columns"} -> "transform"
    [] k = "transform.filter.min_age" -> "transform.filter"
    [] k \in {"transform.add_columns.migrated_at_utc",
              "transform.add_columns.run_id"} -> "transform.add_columns"
    [] k \in {"outputs.output_file", "outputs.report_file",
              "outputs.log_file"} -> "outputs"
    [] OTHER -> ""

Sections == {"run", "paths", "inputs", "transform", "outputs"}

Keys ==
  Sections \cup
  {"run.name", "run.mode", "run.fail_fast",
   "paths.raw_dir", "paths.staging_dir", "paths.output_dir",
   "paths.reports_dir", "paths.logs_dir",
   "inputs.source_file", "inputs.expected_columns",
   "transform.filter", "transform.filter.min_age",
   "transform.add_columns", "transform.add_columns.migrated_at_utc",
   "transform.add_columns.run_id",
   "outputs.output_file", "outputs.report_file", "outputs.log_file"}

RECURSIVE Has(_, _)
Has(doc, k) ==
  /\ k \notin doc.absent
  /\ (Parent(k) = "" \/ Has(doc, Parent(k)))

\* The subscripts data[...][...] of load_config in the order it evaluates
\* them: a missing one raises KeyError.  The first list is read before
\* int(min_age), the second after it.
SubscriptedFirst ==
  <<"run.name",
    "paths.raw_dir", "paths.staging_dir", "paths.output_dir",
    "paths.reports_dir", "paths.logs_dir",
    "inputs.source_file", "inputs.expected_columns",
    "transform.filter">>

SubscriptedLast ==
  <<"outputs.output_file", "outputs.report_file", "outputs.log_file">>

\* min_age as the document gives it: a number, or a string handed to int()
IntOfValue(m) == IF m.num THEN [ok |-> TRUE, v |-> m.v] ELSE ParseInt(m.s)

NoCfg ==
  [run_name |-> "", mode |-> "", fail_fast |-> TRUE,
   raw_dir |-> "", staging_dir |-> "", output_dir |-> "",
   reports_dir |-> "", logs_dir |-> "",
   source_file |-> "", expected_columns |-> <<>>,
   min_age |-> 0, add_migrated_at_utc |-> TRUE, add_run_id |-> TRUE,
   output_file |-> "", report_file |-> "", log_file |-> ""]

load_config(doc) ==
  LET min_age == IF Has(doc, "transform.filter.min_age")
                 THEN IntOfValue(doc.min_age)
                 ELSE [ok |-> TRUE, v |-> 0]
      flag(k, v) == IF Has(doc, k) THEN v ELSE TRUE
  IN IF \E i \in 1..Len(SubscriptedFirst) : ~Has(doc, SubscriptedFirst[i])
     THEN [ok |-> FALSE, err |-> "KeyError", cfg |-> NoCfg]
     ELSE IF ~min_age.ok
     THEN [ok |-> FALSE, err |-> "ValueError", cfg |-> NoCfg]
     ELSE IF \E i \in 1..Len(SubscriptedLast) : ~Has(doc, SubscriptedLast[i])
     THEN [ok |-> FALSE, err |-> "KeyError", cfg |-> NoCfg]
     ELSE [ok |-> TRUE, err |-> "",
           cfg |-> [run_name |-> doc.name,
                    mode |-> IF Has(doc, "run.mode") THEN doc.mode ELSE "full",
                    fail_fast |-> flag("run.fail_fast", doc.fail_fast),
                    raw_dir |-> "raw", staging_dir |-> "staging",
                    output_dir |-> "output", reports_dir |-> "reports",
                    logs_dir |-> "logs",
                    source_file |-> "people.csv",
                    expected_columns |-> doc.expected_columns,
                    min_age |-> min_age.v,
                    add_migrated_at_utc |->
                      flag("transform.add_columns.migrated_at_utc",
                           doc.migrated_at_utc),
                    add_run_id |->
                      flag("transform.add_columns.run_id", doc.run_id),
                    output_file |-> "people_out.csv",
                    report_file |-> "report.json",
                    log_file |-> "run.log"]]

\* ---------------------------------------------------------------- read_csv
\* csv.reader yields [] for a blank line; DictReader skips such rows
IsBlank(line) == line = <<>> \/ line = << <<>> >>

RECURSIVE SkipBlank(_)
SkipBlank(lines) ==
  IF lines = <<>> THEN <<>>
  ELSE IF IsBlank(Head(lines)) THEN SkipBlank(Tail(lines))
  ELSE <<Head(lines)>> \o SkipBlank(Tail(lines))

\* dict(zip(fieldnames, row))
RECURSIVE ZipDict(_, _, _, _)
ZipDict(fieldnames, line, i, d) ==
  IF i > Min(Len(fieldnames), Len(line)) THEN d
  ELSE ZipDict(fieldnames, line, i + 1, DictSet(d, fieldnames[i], line[i]))

\* for key in fieldnames[lr:]: d[key] = restval
RECURSIVE FillRest(_, _, _)
FillRest(fieldnames, i, d) ==
  IF i > Len(fieldnames) THEN d
  ELSE FillRest(fieldnames, i + 1, DictSet(d, fieldnames[i], NoneVal))

\* csv.DictReader.__next__ for one non-blank line
DictReaderRow(fieldnames, line) ==
  LET lf == Len(fieldnames)
      lr == Len(line)
      d == ZipDict(fieldnames, line, 1, EmptyDict)
  IN IF lf < lr THEN DictSet(d, NoneKey, ListRepr(SubSeq(line, lf + 1, lr)))
     ELSE IF lf > lr THEN FillRest(fieldnames, lr + 1, d)
     ELSE d

\* ok = FALSE : reader.fieldnames is None, die("No headers found ...")
read_csv(file) ==
  IF ~file.hasHeader
  THEN [ok |-> FALSE, rows |-> <<>>]
  ELSE LET lines == SkipBlank(file.data)
       IN [ok |-> TRUE,
           rows |-> [i \in 1..Len(lines) |->
                       DictReaderRow(file.header, lines[i])]]

\* -------------------------------------------------------- validate_columns
\* variant: no second look at the file when there are no rows
ObservedHeaders_NoReread(rows, file) ==
  IF rows = <<>> THEN <<>> ELSE rows[1].keys

ObservedHeaders(rows, file) ==
  IF rows = <<>>
  THEN (IF file.hasHeader THEN file.header ELSE <<>>)
  ELSE rows[1].keys

MissingColumns(expected, headers) ==
  {c \in Range(expected) : c \notin Range(headers)}

ExtraColumns(expected, headers) ==
  {c \in Range(headers) : c \notin Range(expected)}

\* variant: missing columns never end the run
validate_columns_NoDie(rows, expected, file, fail_fast) ==
  [ok |-> TRUE, headers |-> ObservedHeaders(rows, file)]

\* ok = FALSE : die("Missing expected columns ...")
validate_columns(rows, expected, file, fail_fast) ==
  LET headers == ObservedHeaders(rows, file)
  IN [ok |-> ~(MissingColumns(expected, headers) # {} /\ fail_fast),
      headers |-> headers]

\* ---------------------------------------------------------- transform_rows
\* r.get("age", "").strip() : None has no strip (AttributeError)
AgeRaises(r) == DictGet(r, "age", <<>>) = NoneVal

\* int(...) or the sentinel -1 on ValueError
AgeOf(r) ==
  LET p == ParseInt(DictGet(r, "age", <<>>))
  IN IF p.ok THEN p.v ELSE 0 - 1

Enrich(r, cfg, runId, migratedAt) ==
  LET a == IF cfg.add_migrated_at_utc
           THEN DictSet(r, "migrated_at_utc", migratedAt) ELSE r
  IN IF cfg.add_run_id THEN DictSet(a, "run_id", runId) ELSE a

RECURSIVE TransformFrom(_, _, _, _, _)
TransformFrom(rows, i, cfg, runId, migratedAt) ==
  IF i > Len(rows) THEN <<>>
  ELSE IF AgeOf(rows[i]) < cfg.min_age
  THEN TransformFrom(rows, i + 1, cfg, runId, migratedAt)
  ELSE <<Enrich(rows[i], cfg, runId, migratedAt)>>
       \o TransformFrom(rows, i + 1, cfg, runId, migratedAt)

\* ok = FALSE : an uncaught AttributeError leaves the loop
transform_rows(rows, cfg, runId, migratedAt) ==
  IF \E i \in 1..Len(rows) : AgeRaises(rows[i])
  THEN [ok |-> FALSE, out |-> <<>>]
  ELSE [ok |-> TRUE, out |-> TransformFrom(rows, 1, cfg, runId, migratedAt)]

\* --------------------------------------------------------------- write_csv
NoFile == [exists |-> FALSE, lines |-> 0, header |-> <<>>, rows |-> <<>>]

\* the text csv.writer emits for a value: None is written as ""
FieldText(v) == IF v = NoneVal THEN <<>> ELSE v

HeaderText(k) == IF k = NoneKey THEN "" ELSE k

\* DictWriter._dict_to_list: a key outside fieldnames raises ValueError
RowFits(fieldnames, r) == Range(r.keys) \subseteq Range(fieldnames)

RowLine(fieldnames, r) ==
  [i \in 1..Len(fieldnames) |-> FieldText(DictGet(r, fieldnames[i], <<>>))]

\* number of leading rows written before writerows stops
FirstMisfit(fieldnames, rows) ==
  IF \E i \in 1..Len(rows) : ~RowFits(fieldnames, rows[i])
  THEN CHOOSE i \in 1..Len(rows) :
         /\ ~RowFits(fieldnames, rows[i])
         /\ \A j \in 1..(i - 1) : RowFits(fieldnames, rows[j])
  ELSE Len(rows) + 1

\* ok = FALSE : ValueError out of writerows; the file keeps what was
\* written before it
write_csv(rows) ==
  IF rows = <<>>
  THEN [ok |-> TRUE,
        file |-> [exists |-> TRUE, lines |-> 0, header |-> <<>>,
                  rows |-> <<>>]]
  ELSE LET headers == rows[1].keys
           n == FirstMisfit(headers, rows) - 1
       IN [ok |-> n = Len(rows),
           file |-> [exists |-> TRUE, lines |-> n + 1,
                     header |-> [i \in 1..Len(headers) |->
                                   HeaderText(headers[i])],
                     rows |-> [i \in 1..n |-> RowLine(headers, rows[i])]]]

\* ---------------------------------------------------------------- the run
VARIABLES
  argc,         \* len(sys.argv)
  cfgExists,    \* the configuration file is there
  doc,          \* the configuration document
  inFile,       \* the file at raw_dir / source_file
  pc,           \* the statement of main about to run, or "exited"
  exitCode,     \* process status once exited, -1 before
  failure,      \* what ended the run early, "" otherwise
  cfg,          \* the Config built by load_config
  runId,        \* number behind this run's uuid4 and timestamp, 0 before
  rows,         \* what read_csv returned
  headers,      \* what validate_columns returned
  transformed,  \* what transform_rows returned
  written,      \* the artifacts this run has written
  log,          \* the log file: lines, oldest first
  staging,      \* the staging file
  output,       \* the output file
  report,       \* the report file
  dirs,         \* directories that exist
  runs          \* invocations so far, this one included

vars ==
  <<argc, cfgExists, doc, inFile, pc, exitCode, failure, cfg, runId, rows,
    headers, transformed, written, log, staging, output, report, dirs, runs>>

\* uuid.uuid4() and datetime.now(): fresh per run, opaque otherwise
RunIdOf(n) == <<"uuid", ToString(n)>>
MigratedAtOf(n) == <<"ts", ToString(n)>>

InputPath(c) == <<c.raw_dir, c.source_file>>
StagingPath(c) == <<c.staging_dir, "staged_", c.source_file>>
OutputPath(c) == <<c.output_dir, c.output_file>>
ReportPath(c) == <<c.reports_dir, c.report_file>>

\* Log messages; log_line's leading timestamp is left out.
StartLine(c, n) ==
  [ev |-> "START",
   text |-> <<"run_name", c.run_name, "mode", c.mode, "run_id">>
            \o RunIdOf(n)]

FailLine(c) ==
  [ev |-> "FAIL", text |-> <<"missing_input", "file">> \o InputPath(c)]

SuccessLine(c, nIn, nOut) ==
  [ev |-> "SUCCESS",
   text |-> <<"input_rows", ToString(nIn), "output_rows", ToString(nOut),
              "report">> \o ReportPath(c)]

\* variant: the log opened with "w"
log_line_Truncate(l, line) == <<line>>

\* log_line: open(..., "a") and one write
log_line(l, line) == Append(l, line)

NoReport ==
  [exists |-> FALSE,
   obj |-> [run_name |-> "", mode |-> "", run_id |-> <<>>,
            migrated_at_utc |-> <<>>, input_file |-> <<>>,
            staging_file |-> <<>>, output_file |-> <<>>,
            input_rows |-> 0, output_rows |-> 0, headers_seen |-> <<>>]]

ReportOf(c, n, rs, out, hs) ==
  [exists |-> TRUE,
   obj |-> [run_name |-> c.run_name, mode |-> c.mode, run_id |-> RunIdOf(n),
            migrated_at_utc |-> MigratedAtOf(n),
            input_file |-> InputPath(c),
            staging_file |-> StagingPath(c),
            output_file |-> OutputPath(c),
            input_rows |-> Len(rs), output_rows |-> Len(out),
            headers_seen |-> hs]]

\* ------------------------------------------------------------------ inputs
Num(n) == [num |-> TRUE, v |-> n, s |-> <<>>]
Str(t) == [num |-> FALSE, v |-> 0, s |-> t]

ExpectedColumnLists == {<<"id", "age">>, <<"id">>}

\* complete documents, as a pipeline run is given
RunDocs ==
  [absent : {{}}, name : {"people"}, mode : {"incremental"},
   fail_fast : BOOLEAN, min_age : {Num(0 - 5), Num(0), Num(18)},
   migrated_at_utc : BOOLEAN, run_id : BOOLEAN,
   expected_columns : ExpectedColumnLists]

\* documents with up to MaxAbsent keys left out, every value a non-default
ConfigDocs ==
  [absent : {a \in SUBSET Keys : Cardinality(a) <= MaxAbsent},
   name : {"people"}, mode : {"incremental"}, fail_fast : {FALSE},
   min_age : {Num(18), Str(<<" ", "7">>), Str(<<"a", "b", "c">>)},
   migrated_at_utc : {FALSE}, run_id : {FALSE},
   expected_columns : {<<"id", "age">>}]

DefaultDoc ==
  [absent |-> {}, name |-> "people", mode |-> "incremental",
   fail_fast |-> TRUE, min_age |-> Num(18), migrated_at_utc |-> TRUE,
   run_id |-> TRUE, expected_columns |-> <<"id", "age">>]

HeaderLines ==
  {<<"id", "age">>, <<"id", "name">>, <<"id", "age", "run_id">>}

\* age cells: empty, whitespace only, not a number, padded number, number
AgeCells == {<<>>, <<" ">>, <<"a">>, <<" ", "7", " ">>, <<"3", "0">>}

FullLine(h, a) == [i \in 1..Len(h) |-> IF h[i] = "age" THEN a ELSE <<"x">>]

\* data lines under header h: one per age cell, one a field short, one a
\* field long, one blank
DataLines(h) ==
  {FullLine(h, a) : a \in AgeCells}
  \cup {SubSeq(FullLine(h, <<"3", "0">>), 1, Len(h) - 1),
        Append(FullLine(h, <<"3", "0">>), <<"y">>),
        <<>>}

SeqsUpTo(S, n) == UNION {[1..k -> S] : k \in 0..n}

MissingFile == [exists |-> FALSE, hasHeader |-> FALSE, header |-> <<>>,
                data |-> <<>>]

EmptyFile == [exists |-> TRUE, hasHeader |-> FALSE, header |-> <<>>,
              data |-> <<>>]

FileOf(h, d) == [exists |-> TRUE, hasHeader |-> TRUE, header |-> h,
                 data |-> d]

InputFiles ==
  {MissingFile, EmptyFile}
  \cup UNION {{FileOf(h, d) : d \in SeqsUpTo(DataLines(h), MaxRows)} :
                h \in HeaderLines}

\* a handful of invocations for runs that follow one another
FewFiles ==
  {MissingFile, EmptyFile,
   FileOf(<<"id", "age">>, <<>>),
   FileOf(<<"id", "age">>, << <<<<"x">>, <<"3", "0">>>> >>),
   FileOf(<<"id", "name">>, << <<<<"x">>, <<"x">>>> >>)}

FewDocs ==
  {DefaultDoc, [DefaultDoc EXCEPT !.absent = {"outputs.log_file"}]}

\* ------------------------------------------------------------------- Init
FreshProcess ==
  /\ pc = "main"
  /\ exitCode = 0 - 1
  /\ failure = ""
  /\ cfg = NoCfg
  /\ runId = 0
  /\ rows = <<>>
  /\ headers = <<>>
  /\ transformed = <<>>
  /\ written = {}

FreshDisk ==
  /\ log = <<>>
  /\ staging = NoFile
  /\ output = NoFile
  /\ report = NoReport
  /\ dirs = {}
  /\ runs = 1

\* a run that never reads its document or its input gets the default ones
Init ==
  /\ argc \in 1..3
  /\ cfgExists \in BOOLEAN
  /\ doc \in RunDocs
  /\ inFile \in InputFiles
  /\ (argc # 2 \/ ~cfgExists) => (doc = DefaultDoc /\ inFile = MissingFile)
  /\ FreshProcess
  /\ FreshDisk

InitConfig ==
  /\ argc = 2
  /\ cfgExists = TRUE
  /\ doc \in ConfigDocs
  /\ inFile = MissingFile
  /\ FreshProcess
  /\ FreshDisk

InitRuns ==
  /\ argc \in 1..2
  /\ cfgExists = TRUE
  /\ doc \in FewDocs
  /\ inFile \in FewFiles
  /\ FreshProcess
  /\ FreshDisk

\* ---------------------------------------------------------------- actions
Exit(code, why) ==
  /\ pc' = "exited"
  /\ exitCode' = code
  /\ failure' = why

Running(next) ==
  /\ pc' = next
  /\ UNCHANGED <<exitCode, failure>>

\* main, lines 181-187
CheckArgs ==
  /\ pc = "main"
  /\ IF argc # 2 THEN Exit(2, "usage")
     ELSE IF ~cfgExists THEN Exit(1, "config_missing")
     ELSE Running("load_config")
  /\ UNCHANGED <<argc, cfgExists, doc, inFile, cfg, runId, rows, headers,
                 transformed, written, log, staging, output, report, dirs,
                 runs>>

\* main, line 189: an exception out of load_config ends the process with 1
LoadConfig ==
  /\ pc = "load_config"
  /\ LET r == load_config(doc)
     IN IF r.ok
        THEN cfg' = r.cfg /\ Running("ensure_dirs")
        ELSE cfg' = cfg /\ Exit(1, "config_error")
  /\ UNCHANGED <<argc, cfgExists, doc, inFile, runId, rows, headers,
                 transformed, written, log, staging, output, report, dirs,
                 runs>>

\* main, line 190
EnsureDirs ==
  /\ pc = "ensure_dirs"
  /\ dirs' = dirs \cup {cfg.raw_dir, cfg.staging_dir, cfg.output_dir,
                        cfg.reports_dir, cfg.logs_dir}
  /\ Running("log_start")
  /\ UNCHANGED <<argc, cfgExists, doc, inFile, cfg, runId, rows, headers,
                 transformed, written, log, staging, output, report, runs>>

\* main, lines 192-196
LogStart ==
  /\ pc = "log_start"
  /\ runId' = runs
  /\ log' = log_line(log, StartLine(cfg, runs))
  /\ dirs' = dirs \cup {cfg.logs_dir}
  /\ Running("check_input")
  /\ UNCHANGED <<argc, cfgExists, doc, inFile, cfg, rows, headers,
                 transformed, written, staging, output, report, runs>>

\* variant: a missing input ends the run without a log line
CheckInput_NoLog ==
  /\ pc = "check_input"
  /\ log' = log
  /\ IF ~inFile.exists THEN Exit(1, "missing_input") ELSE Running("read_csv")
  /\ UNCHANGED <<argc, cfgExists, doc, inFile, cfg, runId, rows, headers,
                 transformed, written, staging, output, report, dirs, runs>>

\* main, lines 198-201
CheckInput ==
  /\ pc = "check_input"
  /\ IF ~inFile.exists
     THEN log' = log_line(log, FailLine(cfg)) /\ Exit(1, "missing_input")
     ELSE log' = log /\ Running("read_csv")
  /\ UNCHANGED <<argc, cfgExists, doc, inFile, cfg, runId, rows, headers,
                 transformed, written, staging, output, report, dirs, runs>>

\* main, line 203
ReadCsv ==
  /\ pc = "read_csv"
  /\ LET r == read_csv(inFile)
     IN IF r.ok
        THEN rows' = r.rows /\ Running("validate_columns")
        ELSE rows' = rows /\ Exit(1, "no_headers")
  /\ UNCHANGED <<argc, cfgExists, doc, inFile, cfg, runId, headers,
                 transformed, written, log, staging, output, report, dirs,
                 runs>>

\* main, line 204
ValidateColumns ==
  /\ pc = "validate_columns"
  /\ LET v == validate_columns(rows, cfg.expected_columns, inFile,
                               cfg.fail_fast)
     IN IF v.ok
        THEN headers' = v.headers /\ Running("transform_rows")
        ELSE headers' = headers /\ Exit(1, "schema")
  /\ UNCHANGED <<argc, cfgExists, doc, inFile, cfg, runId, rows,
                 transformed, written, log, staging, output, report, dirs,
                 runs>>

\* main, line 207
TransformRows ==
  /\ pc = "transform_rows"
  /\ LET t == transform_rows(rows, cfg, RunIdOf(runId), MigratedAtOf(runId))
     IN IF t.ok
        THEN transformed' = t.out /\ Running("write_staging")
        ELSE transformed' = transformed /\ Exit(1, "transform_error")
  /\ UNCHANGED <<argc, cfgExists, doc, inFile, cfg, runId, rows, headers,
                 written, log, staging, output, report, dirs, runs>>

\* main, lines 210 and 212
WriteStaging ==
  /\ pc = "write_staging"
  /\ LET w == write_csv(transformed)
     IN /\ staging' = w.file
        /\ IF w.ok THEN Running("write_output") ELSE Exit(1, "write_error")
  /\ written' = written \cup {"staging"}
  /\ dirs' = dirs \cup {cfg.staging_dir}
  /\ UNCHANGED <<argc, cfgExists, doc, inFile, cfg, runId, rows, headers,
                 transformed, log, output, report, runs>>

\* variant: SUCCESS is logged straight after the output file
WriteOutput_NoReport ==
  /\ pc = "write_output"
  /\ LET w == write_csv(transformed)
     IN /\ output' = w.file
        /\ IF w.ok THEN Running("log_success") ELSE Exit(1, "write_error")
  /\ written' = written \cup {"output"}
  /\ dirs' = dirs \cup {cfg.output_dir}
  /\ UNCHANGED <<argc, cfgExists, doc, inFile, cfg, runId, rows, headers,
                 transformed, log, staging, report, runs>>

\* main, lines 211 and 213
WriteOutput ==
  /\ pc = "write_output"
  /\ LET w == write_csv(transformed)
     IN /\ output' = w.file
        /\ IF w.ok THEN Running("write_report") ELSE Exit(1, "write_error")
  /\ written' = written \cup {"output"}
  /\ dirs' = dirs \cup {cfg.output_dir}
  /\ UNCHANGED <<argc, cfgExists, doc, inFile, cfg, runId, rows, headers,
                 transformed, log, staging, report, runs>>

\* main, lines 215-229
WriteReport ==
  /\ pc = "write_report"
  /\ report' = ReportOf(cfg, runId, rows, transformed, headers)
  /\ written' = written \cup {"report"}
  /\ dirs' = dirs \cup {cfg.reports_dir}
  /\ Running("log_success")
  /\ UNCHANGED <<argc, cfgExists, doc, inFile, cfg, runId, rows, headers,
                 transformed, log, staging, output, runs>>

\* main, lines 231-236
LogSuccess ==
  /\ pc = "log_success"
  /\ log' = log_line(log, SuccessLine(cfg, Len(rows), Len(transformed)))
  /\ Exit(0, "")
  /\ UNCHANGED <<argc, cfgExists, doc, inFile, cfg, runId, rows, headers,
                 transformed, written, staging, output, report, dirs, runs>>

\* the next invocation of the script against what the last one left on disk
Rerun ==
  /\ pc = "exited"
  /\ runs < MaxRuns
  /\ runs' = runs + 1
  /\ argc' \in 1..2
  /\ cfgExists' = TRUE
  /\ doc' \in FewDocs
  /\ inFile' \in FewFiles
  /\ pc' = "main"
  /\ exitCode' = 0 - 1
  /\ failure' = ""
  /\ cfg' = NoCfg
  /\ runId' = 0
  /\ rows' = <<>>
  /\ headers' = <<>>
  /\ transformed' = <<>>
  /\ written' = {}
  /\ UNCHANGED <<log, staging, output, report, dirs>>

Next ==
  \/ CheckArgs
  \/ LoadConfig
  \/ EnsureDirs
  \/ LogStart
  \/ CheckInput
  \/ ReadCsv
  \/ ValidateColumns
  \/ TransformRows
  \/ WriteStaging
  \/ WriteOutput
  \/ WriteReport
  \/ LogSuccess

NextConfig == CheckArgs \/ LoadConfig

NextRuns == Next \/ Rerun

\* one run of the pipeline over every document and input file
Spec == Init /\ [][Next]_vars

\* load_config over documents with keys left out
SpecConfig == InitConfig /\ [][NextConfig]_vars

\* successive runs against the same paths
SpecRuns == InitRuns /\ [][NextRuns]_vars

\* ------------------------------------------------------------ properties
\* What the claims speak of, stated over the inputs of the run.

\* the invocation is well-formed and its document resolves
ValidRun == argc = 2 /\ cfgExists /\ load_config(doc).ok

Resolved == load_config(doc).cfg

HasHeaderLine == inFile.exists /\ inFile.hasHeader

\* expected columns that the header line of the input lacks
HeaderMissing == {c \in Range(Resolved.expected_columns) :
                    c \notin Range(inFile.header)}

\* the age a data line carries: the cell under the header "age", parsed,
\* or -1 when the cell is not there or is no integer
LineAge(h, line) ==
  LET i == IndexOf(h, "age")
  IN IF i = 0 \/ i > Len(line) THEN 0 - 1
     ELSE IF ParseInt(line[i]).ok THEN ParseInt(line[i]).v
     ELSE 0 - 1

DataRows == SkipBlank(inFile.data)

RetainedCount ==
  Cardinality({i \in 1..Len(DataRows) :
                 LineAge(inFile.header, DataRows[i]) >= Resolved.min_age})

LogHas(ev) == \E i \in 1..Len(log) : log[i].ev = ev

Artifacts == {"staging", "output", "report"}

BeforeConfigLoaded == {"usage", "config_missing", "config_error"}

\* C1: for a valid configuration and an input whose header has every
\* expected column, whatever the age cells (an absent one included), the run
\* ends with exit code 0 and the report's output_rows is the number of input
\* rows whose parsed-or-sentinel age is at least min_age.
C1_SupersetRunSucceeds ==
  (pc = "exited" /\ ValidRun /\ HasHeaderLine /\ HeaderMissing = {})
    => /\ exitCode = 0
       /\ report.exists
       /\ report.obj.output_rows = RetainedCount

\* C2: when an expected column is absent from the input's header and
\* fail_fast is true, the run writes no staging, output or report file, logs
\* no SUCCESS line, and ends with exit code 1.
C2_FailFastSchemaError ==
  (ValidRun /\ HasHeaderLine /\ HeaderMissing # {} /\ Resolved.fail_fast)
    => /\ written = {}
       /\ ~staging.exists /\ ~output.exists /\ ~report.exists
       /\ ~LogHas("SUCCESS")
       /\ pc \notin {"transform_rows", "write_staging", "write_output",
                     "write_report", "log_success"}
       /\ (pc = "exited" => exitCode = 1 /\ failure = "schema")

\* C2 witness: a fail-fast run over an input with data rows and a missing
\* column has ended
C2_Witness ==
  /\ pc = "exited"
  /\ failure = "schema"
  /\ HeaderMissing # {}
  /\ cfg.fail_fast
  /\ DataRows # <<>>

ReportStrings ==
  IF report.exists
  THEN {report.obj.run_name, report.obj.mode}
       \cup Range(report.obj.run_id) \cup Range(report.obj.migrated_at_utc)
       \cup Range(report.obj.input_file) \cup Range(report.obj.staging_file)
       \cup Range(report.obj.output_file) \cup Range(report.obj.headers_seen)
  ELSE {}

\* every string the log holds
LogStrings == UNION {Range(log[i].text) : i \in 1..Len(log)}

\* C4: with fail_fast false and expected columns missing from the header,
\* a run that reaches its successful end has named each missing column in
\* the log or in the report.
C4_MissingColumnsReported ==
  (pc = "exited" /\ exitCode = 0 /\ ValidRun /\ HasHeaderLine
   /\ ~Resolved.fail_fast)
    => \A c \in HeaderMissing : c \in LogStrings \cup ReportStrings

\* the fields the configuration contract calls required
RequiredKeys ==
  {"run.name",
   "paths.raw_dir", "paths.staging_dir", "paths.output_dir",
   "paths.reports_dir", "paths.logs_dir",
   "inputs.source_file", "inputs.expected_columns",
   "outputs.output_file", "outputs.report_file", "outputs.log_file"}

MinAgeNumeric ==
  Has(doc, "transform.filter.min_age") => IntOfValue(doc.min_age).ok

\* C5: resolution fails only when a required field is absent or min_age is
\* not numeric; with every required field there, leaving out optional ones
\* (the transform section and transform.filter among them) resolves, with
\* mode "full", fail_fast true, min_age 0 and both add-column flags true
\* standing in for what was left out.
C5_OnlyRequiredFieldsAreRequired ==
  (pc \in {"ensure_dirs", "exited"} /\ failure # "usage"
   /\ failure # "config_missing"
   /\ (\A k \in RequiredKeys : Has(doc, k)) /\ MinAgeNumeric)
    => /\ pc = "ensure_dirs"
       /\ ~Has(doc, "run.mode") => cfg.mode = "full"
       /\ ~Has(doc, "run.fail_fast") => cfg.fail_fast
       /\ ~Has(doc, "transform.filter.min_age") => cfg.min_age = 0
       /\ ~Has(doc, "transform.add_columns.migrated_at_utc")
            => cfg.add_migrated_at_utc
       /\ ~Has(doc, "transform.add_columns.run_id") => cfg.add_run_id

\* C6: an input with a header line and no data rows is judged by its header
\* line: with every expected column there the run succeeds, staging and
\* output are empty files and the report counts 0 input and 0 output rows;
\* with a column missing and fail_fast true it fails as it does with rows.
C6_HeaderOnlyInput ==
  (pc = "exited" /\ ValidRun /\ HasHeaderLine /\ DataRows = <<>>)
    => IF HeaderMissing = {}
       THEN /\ exitCode = 0
            /\ written = Artifacts
            /\ staging.exists /\ staging.lines = 0
            /\ output.exists /\ output.lines = 0
            /\ report.exists
            /\ report.obj.input_rows = 0
            /\ report.obj.output_rows = 0
            /\ report.obj.headers_seen = inFile.header
       ELSE Resolved.fail_fast
              => exitCode = 1 /\ failure = "schema" /\ written = {}

\* C6 witness: a header-only input with every expected column went through
C6_Witness ==
  /\ pc = "exited"
  /\ exitCode = 0
  /\ HasHeaderLine
  /\ inFile.data = <<>>
  /\ HeaderMissing = {}
  /\ staging.exists

IsPrefix(a, b) == Len(a) <= Len(b) /\ SubSeq(b, 1, Len(a)) = a

\* C7: the log is append-only over successive runs: every step leaves the
\* old log as a prefix of the new one, and a run that got past loading its
\* configuration and ended has its own START line in the log.
C7_LogAppendOnly ==
  /\ [][IsPrefix(log, log')]_vars
  /\ []((pc = "exited" /\ failure \notin BeforeConfigLoaded)
          => \E i \in 1..Len(log) : log[i] = StartLine(cfg, runs))

\* C7 witness: a second run, itself failed on a missing input, has added
\* its lines behind those of a first, successful run
C7_Witness ==
  /\ runs = 2
  /\ pc = "exited"
  /\ failure = "missing_input"
  /\ Len(log) = 4
  /\ log[2].ev = "SUCCESS"
  /\ log[4].ev = "FAIL"

\* C8: transform_rows never fails on row data, whatever the age cell, a
\* cell that is absent because the line is shorter than the header included.
C8_TransformNeverRaises == failure # "transform_error"

\* the rows transform_rows keeps, before enrichment
RECURSIVE KeptFrom(_, _, _)
KeptFrom(rs, i, minAge) ==
  IF i > Len(rs) THEN <<>>
  ELSE IF AgeOf(rs[i]) < minAge THEN KeptFrom(rs, i + 1, minAge)
  ELSE <<rs[i]>> \o KeptFrom(rs, i + 1, minAge)

EnabledEnrichment(c) ==
  (IF c.add_migrated_at_utc THEN <<"migrated_at_utc">> ELSE <<>>)
  \o (IF c.add_run_id THEN <<"run_id">> ELSE <<>>)

\* C9: every transformed row has the source columns first, in source order
\* and with the source values, and then the enabled enrichment fields,
\* migrated_at_utc before run_id, also when the source already has a column
\* of such a name.
C9_SourceColumnsThenEnrichment ==
  pc \in {"write_staging", "write_output", "write_report", "log_success"}
    => LET kept == KeptFrom(rows, 1, cfg.min_age)
       IN /\ Len(transformed) = Len(kept)
          /\ \A i \in 1..Len(transformed) :
               /\ transformed[i].keys
                    = kept[i].keys \o EnabledEnrichment(cfg)
               /\ SubSeq(transformed[i].vals, 1, Len(kept[i].vals))
                    = kept[i].vals

FiveDirs == {"raw", "staging", "output", "reports", "logs"}

\* C10: the steps come in the order config load, directories, START, input
\* read, validation, transform, staging, output, report, SUCCESS: the report
\* is written once and after both data files, SUCCESS and exit code 0 come
\* after the report, and a failed run has neither report nor SUCCESS.
C10_StepOrder ==
  /\ []( /\ LogHas("START") => (cfg # NoCfg /\ FiveDirs \subseteq dirs)
         /\ (rows # <<>> \/ headers # <<>>) => LogHas("START")
         /\ "staging" \in written => pc \notin {"validate_columns",
                                                "transform_rows"}
         /\ "output" \in written => "staging" \in written
         /\ "report" \in written => {"staging", "output"} \subseteq written
         /\ "report" \in written <=> report.exists
         /\ LogHas("SUCCESS") => ("report" \in written /\ exitCode = 0)
         /\ exitCode = 0 => ("report" \in written /\ LogHas("SUCCESS"))
         /\ (pc = "exited" /\ exitCode # 0)
              => ("report" \notin written /\ ~LogHas("SUCCESS")) )
  /\ [][report.exists => report' = report]_vars

\* C10 witness: a run with rows kept has logged SUCCESS after its report
C10_Witness ==
  /\ pc = "exited"
  /\ exitCode = 0
  /\ written = Artifacts
  /\ LogHas("SUCCESS")
  /\ transformed # <<>>

====
